---- MODULE Spec2Model ----
(***************************************************************************)
(* Variable-time scalar multiplication of ring's suite_b fallback          *)
(* (src/ec/suite_b/ops/vartime.rs): point_mul_vartime, points_mul_vartime  *)
(* and the PointVartime accumulator, over a small short-Weierstrass curve  *)
(* y^2 = x^3 - 3x + b of prime order, with field elements held in the      *)
(* Montgomery domain and points held as Jacobian triples.                  *)
(***************************************************************************)
EXTENDS Integers, Sequences, FiniteSets, TLC

\* ------------------------------------------------------------------------
\* Bounds of the model
\* ------------------------------------------------------------------------
\* Base points are drawn from the first NumPoints points of the curve.
NumPoints == 3

\* ------------------------------------------------------------------------
\* CommonOps: the curve context (external to vartime.rs)
\* ------------------------------------------------------------------------
\* The field modulus ops.q.p.
FieldP == 31
\* The curve coefficient b (a is -3, as for every Suite B curve).
CurveB == 7
\* The (prime) group order ops.n.
GroupOrder == 37
\* The Montgomery radix: 2^(limb bits * num_limbs), here one 6-bit limb.
MontR == 64

Elems == 0..(FieldP - 1)

RECURSIVE BitLen(_)
BitLen(v) == IF v = 0 THEN 0 ELSE 1 + BitLen(v \div 2)

\* ops.order_bits()
order_bits == BitLen(GroupOrder)

InvTable == [v \in 1..(FieldP - 1) |->
                CHOOSE w \in 1..(FieldP - 1) : (v * w) % FieldP = 1]

\* ops.q.rr: R*R mod q
rr == (MontR * MontR) % FieldP

\* Elem::zero()
ElemZero == 0

\* ops.elem_mul: Montgomery multiplication a*b/R mod q
elem_mul(a, b) == (a * b * InvTable[MontR % FieldP]) % FieldP

elem_add(a, b) == (a + b) % FieldP

elem_sub(a, b) == (a + FieldP - b) % FieldP

\* ops.elem_negate_vartime
elem_negate_vartime(a) == (FieldP - a) % FieldP

elem_sqr(a) == elem_mul(a, a)

ZeroTriple == <<ElemZero, ElemZero, ElemZero>>

\* A projective triple stands for the point at infinity when Z = 0.
IsInfinity(t) == t[3] = ElemZero

\* fallback::point_double: Jacobian doubling for a = -3 (dbl-2001-b).
point_double(t) ==
    LET delta == elem_sqr(t[3])
        gamma == elem_sqr(t[2])
        beta  == elem_mul(t[1], gamma)
        m     == elem_mul(elem_sub(t[1], delta), elem_add(t[1], delta))
        alpha == elem_add(m, elem_add(m, m))
        beta2 == elem_add(beta, beta)
        beta4 == elem_add(beta2, beta2)
        beta8 == elem_add(beta4, beta4)
        x3    == elem_sub(elem_sqr(alpha), beta8)
        z3    == elem_sub(elem_sub(elem_sqr(elem_add(t[2], t[3])), gamma), delta)
        gg    == elem_sqr(gamma)
        gg2   == elem_add(gg, gg)
        gg4   == elem_add(gg2, gg2)
        gg8   == elem_add(gg4, gg4)
        y3    == elem_sub(elem_mul(alpha, elem_sub(beta4, x3)), gg8)
    IN  <<x3, y3, z3>>

\* The Jacobian addition formula (add-2007-bl) without any special case.
AddFormula(t1, t2) ==
    LET z1z1 == elem_sqr(t1[3])
        z2z2 == elem_sqr(t2[3])
        u1   == elem_mul(t1[1], z2z2)
        u2   == elem_mul(t2[1], z1z1)
        s1   == elem_mul(elem_mul(t1[2], t2[3]), z2z2)
        s2   == elem_mul(elem_mul(t2[2], t1[3]), z1z1)
        h    == elem_sub(u2, u1)
        h2   == elem_add(h, h)
        i    == elem_sqr(h2)
        j    == elem_mul(h, i)
        d    == elem_sub(s2, s1)
        r    == elem_add(d, d)
        v    == elem_mul(u1, i)
        x3   == elem_sub(elem_sub(elem_sqr(r), j), elem_add(v, v))
        s1j  == elem_mul(s1, j)
        y3   == elem_sub(elem_mul(r, elem_sub(v, x3)), elem_add(s1j, s1j))
        zz   == elem_sub(elem_sub(elem_sqr(elem_add(t1[3], t2[3])), z1z1), z2z2)
        z3   == elem_mul(zz, h)
    IN  <<x3, y3, z3>>

\* Whether two finite triples stand for the same point (the doubling case).
SamePoint(t1, t2) ==
    LET z1z1 == elem_sqr(t1[3])
        z2z2 == elem_sqr(t2[3])
    IN  /\ elem_mul(t1[1], z2z2) = elem_mul(t2[1], z1z1)
        /\ elem_mul(elem_mul(t1[2], t2[3]), z2z2)
             = elem_mul(elem_mul(t2[2], t1[3]), z1z1)

\* fallback::points_add_vartime on two finite operands: the group law.
points_add_vartime(t1, t2) ==
    IF SamePoint(t1, t2) THEN point_double(t1) ELSE AddFormula(t1, t2)

\* Every result points_add_vartime may give.  With an operand at infinity
\* the call is outside its contract: the bare formula yields a triple with
\* Z = 0, an implementation that selects on Z yields the other operand.
PointsAddOutcomes(t1, t2) ==
    IF IsInfinity(t1) \/ IsInfinity(t2)
    THEN {AddFormula(t1, t2), IF IsInfinity(t1) THEN t2 ELSE t1}
    ELSE {points_add_vartime(t1, t2)}

\* ops.new_point: the finished Point keeps the three coordinates.
new_point(x, y, z) == [xyz |-> <<x, y, z>>]

\* ------------------------------------------------------------------------
\* Reference group: affine points with the chord-and-tangent law,
\* coordinates as plain residues (not in the Montgomery domain).
\* ------------------------------------------------------------------------
Inf == <<>>

OnCurve(x, y) ==
    (y * y) % FieldP = (x * x * x + (FieldP - 3) * x + CurveB) % FieldP

CurvePoints == {pt \in Elems \X Elems : OnCurve(pt[1], pt[2])}

Rank(pt) == pt[1] * FieldP + pt[2]

BasePoints ==
    {pt \in CurvePoints :
        Cardinality({o \in CurvePoints : Rank(o) < Rank(pt)}) < NumPoints}

RefAdd(p1, p2) ==
    IF p1 = Inf THEN p2
    ELSE IF p2 = Inf THEN p1
    ELSE IF p1[1] = p2[1] /\ (p1[2] + p2[2]) % FieldP = 0 THEN Inf
    ELSE LET num == IF p1 = p2
                    THEN (3 * p1[1] * p1[1] + (FieldP - 3)) % FieldP
                    ELSE (p2[2] + FieldP - p1[2]) % FieldP
             den == IF p1 = p2
                    THEN (2 * p1[2]) % FieldP
                    ELSE (p2[1] + FieldP - p1[1]) % FieldP
             lam == (num * InvTable[den]) % FieldP
             x3  == (lam * lam + 2 * FieldP - p1[1] - p2[1]) % FieldP
             y3  == (lam * (p1[1] + FieldP - x3) + FieldP - p1[2]) % FieldP
         IN  <<x3, y3>>

RECURSIVE RefMulRec(_, _)
RefMulRec(k, p1) == IF k = 0 THEN Inf ELSE RefAdd(RefMulRec(k - 1, p1), p1)

RefTable == [pt \in BasePoints |-> [k \in 0..(GroupOrder - 1) |-> RefMulRec(k, pt)]]

\* k.P by k-fold addition, k any integer taken modulo the group order.
RefMul(k, p1) == RefTable[p1][k % GroupOrder]

\* Into and out of the Montgomery domain.
ToMont(v) == (v * MontR) % FieldP

FromMont(v) == (v * InvTable[MontR % FieldP]) % FieldP

\* The group element a Jacobian triple of Montgomery residues stands for.
Rep(t) ==
    IF IsInfinity(t) THEN Inf
    ELSE LET zi  == InvTable[FromMont(t[3])]
             zi2 == (zi * zi) % FieldP
         IN  <<(FromMont(t[1]) * zi2) % FieldP,
               (FromMont(t[2]) * zi2 * zi) % FieldP>>

\* The (Elem<R>, Elem<R>) pair a caller passes for the affine point pt.
Encode(pt) == <<ToMont(pt[1]), ToMont(pt[2])>>

Decode(xy) == <<FromMont(xy[1]), FromMont(xy[2])>>

\* ------------------------------------------------------------------------
\* point_mul_vartime: constants and pure steps
\* ------------------------------------------------------------------------
WINDOW_BITS == 4

RECURSIVE Pow2(_)
Pow2(e) == IF e = 0 THEN 1 ELSE 2 * Pow2(e - 1)

\* const PRECOMP_SIZE: usize = 1 << (WINDOW_BITS - 1)
PRECOMP_SIZE == Pow2(WINDOW_BITS - 1)

\* 1 in the Montgomery domain: acc.limbs[0] = 1; ops.elem_mul(&mut acc, &rr)
MontOne == elem_mul(1, rr)

\* Option<[Elem<R>; 3]>
None == <<>>

Some(t) == <<t>>

Abs(d) == IF d < 0 THEN 0 - d ELSE d

\* Bit k of the scalar's limbs (bn_is_bit_set_words).
ScalarBit(scalar, k) == (scalar \div Pow2(k)) % 2

\* One round of ec_compute_wNAF's loop at position j: the digit emitted
\* for the current window value.
WnafDigit(window_val, j, bits, w) ==
    LET bit      == Pow2(w)
        next_bit == 2 * bit
    IN  IF window_val % 2 = 1
        THEN IF (window_val \div bit) % 2 = 1
             THEN IF j + w + 1 >= bits
                  THEN window_val % bit
                  ELSE window_val - next_bit
             ELSE window_val
        ELSE 0

RECURSIVE WnafFrom(_, _, _, _, _, _)
WnafFrom(out, scalar, j, window_val, bits, w) ==
    IF j = bits + 1 THEN out
    ELSE LET digit == WnafDigit(window_val, j, bits, w)
             rest  == (window_val - digit) \div 2
         IN  WnafFrom(Append(out, digit), scalar, j + 1,
                      rest + Pow2(w) * ScalarBit(scalar, j + w + 1), bits, w)

\* ec_compute_wNAF(out, scalar, scalar_limbs, order_bits, w): out[j] is the
\* j-th digit, least significant first, order_bits + 1 digits.
ec_compute_wNAF(scalar, bits, w) ==
    WnafFrom(<<>>, scalar, 0, scalar % Pow2(w + 1), bits, w)

\* precomp after lines 43-55: entry 0 is (x, y, 1), the rest zero.
precomp_init(x, y) ==
    [k \in 1..PRECOMP_SIZE |-> IF k = 1 THEN <<x, y, MontOne>> ELSE ZeroTriple]

\* A loop that adds entry 0 instead of the doubled point.
PrecompLoopAddsP(pre, dbl, k) ==
    {[pre EXCEPT ![k + 1] = r] : r \in PointsAddOutcomes(pre[1], pre[k])}

\* One iteration of the precomputation loop: to_write[0] = p2 + written[i-1].
PrecompLoopOutcomes(pre, dbl, k) ==
    {[pre EXCEPT ![k + 1] = r] : r \in PointsAddOutcomes(dbl, pre[k])}

RECURSIVE BuildFrom(_, _, _)
BuildFrom(pres, dbl, k) ==
    IF k >= PRECOMP_SIZE THEN pres
    ELSE BuildFrom(UNION {PrecompLoopOutcomes(pre, dbl, k) : pre \in pres}, dbl, k + 1)

\* digit & 1 on an i8 (two's complement).
LowBit(digit) == ((digit + 256) % 256) % 2

\* An index computed without the shift.
IdxNoShift(digit) == Abs(digit)

\* idx = usize::try_from(if neg { -digit } else { digit }).unwrap() >> 1
Idx(digit) == Abs(digit) \div 2

\* Whether consuming the digit halts the program: the debug assertion on
\* the low bit, or the bounds check of precomp[idx].
Panics(digit) == digit # 0 /\ (LowBit(digit) # 1 \/ Idx(digit) >= PRECOMP_SIZE)

\* An operand whose y is never negated.
AddOperandNoNegate(pre, digit) == pre[Idx(digit) + 1]

\* The (x, y, z) handed to add_assign: the entry, y negated in a copy
\* when the digit is negative.
AddOperand(pre, digit) ==
    LET entry == pre[Idx(digit) + 1]
    IN  <<entry[1],
          IF digit < 0 THEN elem_negate_vartime(entry[2]) ELSE entry[2],
          entry[3]>>

\* An add_assign that overwrites the accumulator.
AddAssignOverwrite(value, t) == {Some(t)}

\* PointVartime::add_assign
add_assign(value, t) ==
    IF value # None
    THEN {Some(r) : r \in PointsAddOutcomes(value[1], t)}
    ELSE {Some(t)}

\* A double_assign that treats infinity as the all-zero triple.
DoubleAssignSentinel(value) ==
    IF value # None THEN Some(point_double(value[1])) ELSE Some(point_double(ZeroTriple))

\* PointVartime::double_assign
double_assign(value) ==
    IF value # None THEN Some(point_double(value[1])) ELSE value

\* A fold step that negates y inside the table entry.
FoldDigitInPlace(value, pre, digit) ==
    IF digit # 0
    THEN LET negated == IF digit < 0
                        THEN [pre EXCEPT ![Idx(digit) + 1][2] = elem_negate_vartime(@)]
                        ELSE pre
         IN  {[acc |-> v, precomp |-> negated] :
                 v \in add_assign(value, negated[Idx(digit) + 1])}
    ELSE {[acc |-> value, precomp |-> pre]}

\* Lines 101-115 for one digit: the accumulator and the table afterwards.
FoldDigitOutcomes(value, pre, digit) ==
    IF digit # 0
    THEN {[acc |-> v, precomp |-> pre] : v \in add_assign(value, AddOperand(pre, digit))}
    ELSE {[acc |-> value, precomp |-> pre]}

\* A fold that doubles after index 0 too.
FoldDoubleAlways(value, k) == double_assign(value)

\* Lines 116-118: if i != 0 { acc.double_assign() }
FoldDouble(value, k) == IF k # 0 THEN double_assign(value) ELSE value

\* A return that encodes infinity as (1, 1, 0).
UnwrapOrOne(value) == IF value # None THEN value[1] ELSE <<MontOne, MontOne, ElemZero>>

\* acc.value.unwrap_or_else(|| [Elem::zero(); 3])
unwrap_or_zero(value) == IF value # None THEN value[1] ELSE ZeroTriple

RECURSIVE FoldFrom(_, _, _)
FoldFrom(states, digits, k) ==
    IF k < 0 THEN states
    ELSE FoldFrom(
           UNION {{[acc |-> FoldDouble(o.acc, k), precomp |-> o.precomp] :
                     o \in IF Panics(digits[k + 1]) THEN {}
                           ELSE FoldDigitOutcomes(s.acc, s.precomp, digits[k + 1])} :
                  s \in states},
           digits, k - 1)

\* point_mul_vartime as a function of its inputs: every triple it may return.
point_mul_vartime(scalar, point) ==
    LET pre0   == precomp_init(point[1], point[2])
        dbl    == point_double(pre0[1])
        pres   == BuildFrom({pre0}, dbl, 1)
        digits == ec_compute_wNAF(scalar, order_bits, WINDOW_BITS)
        fin    == FoldFrom({[acc |-> None, precomp |-> pre] : pre \in pres},
                           digits, Len(digits) - 1)
    IN  {unwrap_or_zero(s.acc) : s \in fin}

\* ------------------------------------------------------------------------
\* State
\* ------------------------------------------------------------------------
VARIABLES
    pc,        \* position in the running function
    a,         \* point_mul_vartime: the scalar
    xy,        \* point_mul_vartime: the (x, y) pair
    precomp,   \* the odd-multiples table
    p2,        \* the doubled point
    i,         \* the index of the running loop
    wnaf,      \* the signed digits, least significant first
    acc,       \* PointVartime.value
    ret,       \* the returned triple, <<>> before the return
    lastAdd,   \* the operands of the latest points_add_vartime call
    inputs,    \* the arguments of a caller of point_mul_vartime
    acc_g,     \* points_mul_vartime: acc
    xyz2,      \* points_mul_vartime: [x2, y2, z2]
    out,       \* points_mul_vartime: the returned Point
    sum        \* the triple for the sum of two scalars

vars == <<pc, a, xy, precomp, p2, i, wnaf, acc, ret, lastAdd,
          inputs, acc_g, xyz2, out, sum>>

\* The locals of one point_mul_vartime call.
mulVars == <<a, xy, precomp, p2, i, wnaf, acc, ret>>

\* The locals of the callers.
callerVars == <<inputs, acc_g, xyz2, out, sum>>

Scalars == 0..(GroupOrder - 1)

NoTable == [k \in 1..PRECOMP_SIZE |-> ZeroTriple]

\* Entry of point_mul_vartime, as the test calls it (lines 158-162).
Init ==
    /\ pc = "start"
    /\ a \in Scalars
    /\ xy \in {Encode(pt) : pt \in BasePoints}
    /\ precomp = NoTable
    /\ p2 = ZeroTriple
    /\ i = 0
    /\ wnaf = <<>>
    /\ acc = None
    /\ ret = <<>>
    /\ lastAdd = <<>>
    /\ inputs = <<>>
    /\ acc_g = ZeroTriple
    /\ xyz2 = ZeroTriple
    /\ out = <<>>
    /\ sum = ZeroTriple

\* Lines 43-55.
PrecompInit ==
    /\ pc = "start"
    /\ precomp' = precomp_init(xy[1], xy[2])
    /\ pc' = "double"
    /\ UNCHANGED <<a, xy, p2, i, wnaf, acc, ret, lastAdd, callerVars>>

\* Lines 57-64.
DoubleP ==
    /\ pc = "double"
    /\ p2' = point_double(precomp[1])
    /\ i' = 1
    /\ pc' = "precomp"
    /\ UNCHANGED <<a, xy, precomp, wnaf, acc, ret, lastAdd, callerVars>>

\* Lines 66-79, one iteration.
PrecompLoop ==
    /\ pc = "precomp"
    /\ i < PRECOMP_SIZE
    /\ precomp' \in PrecompLoopOutcomes(precomp, p2, i)
    /\ lastAdd' = <<p2, precomp[i]>>
    /\ i' = i + 1
    /\ pc' = IF i + 1 < PRECOMP_SIZE THEN "precomp" ELSE "wnaf"
    /\ UNCHANGED <<a, xy, p2, wnaf, acc, ret, callerVars>>

\* Lines 81-98.
ComputeWNAF ==
    /\ pc = "wnaf"
    /\ wnaf' = ec_compute_wNAF(a, order_bits, WINDOW_BITS)
    /\ acc' = None
    /\ i' = order_bits
    /\ pc' = "digit"
    /\ UNCHANGED <<a, xy, precomp, p2, ret, lastAdd, callerVars>>

\* Lines 101-115 at index i.
FoldDigit ==
    /\ pc = "digit"
    /\ LET digit == wnaf[i + 1]
       IN  IF Panics(digit)
           THEN /\ pc' = "panic"
                /\ UNCHANGED <<precomp, acc, lastAdd>>
           ELSE /\ \E o \in FoldDigitOutcomes(acc, precomp, digit) :
                      /\ acc' = o.acc
                      /\ precomp' = o.precomp
                /\ lastAdd' = IF digit # 0 /\ acc # None
                              THEN <<acc[1], AddOperand(precomp, digit)>>
                              ELSE lastAdd
                /\ pc' = "after_digit"
    /\ UNCHANGED <<a, xy, p2, i, wnaf, ret, callerVars>>

\* Lines 116-118 at index i, and the step to the next index.
FoldNext ==
    /\ pc = "after_digit"
    /\ acc' = FoldDouble(acc, i)
    /\ IF i # 0
       THEN i' = i - 1 /\ pc' = "digit"
       ELSE i' = i /\ pc' = "return"
    /\ UNCHANGED <<a, xy, precomp, p2, wnaf, ret, lastAdd, callerVars>>

\* Line 120.
Return ==
    /\ pc = "return"
    /\ ret' = unwrap_or_zero(acc)
    /\ pc' = "done"
    /\ UNCHANGED <<a, xy, precomp, p2, i, wnaf, acc, lastAdd, callerVars>>

Next ==
    \/ PrecompInit
    \/ DoubleP
    \/ PrecompLoop
    \/ ComputeWNAF
    \/ FoldDigit
    \/ FoldNext
    \/ Return

Spec == Init /\ [][Next]_vars

\* ------------------------------------------------------------------------
\* points_mul_vartime (lines 21-32); each point_mul_vartime call is one step
\* ------------------------------------------------------------------------
EncodedPoints == {Encode(pt) : pt \in BasePoints}

InitDual ==
    /\ pc = "dual_start"
    /\ inputs \in [g_scalar : Scalars, g : EncodedPoints,
                   p_scalar : Scalars, p : EncodedPoints]
    /\ a = 0
    /\ xy = <<ElemZero, ElemZero>>
    /\ precomp = NoTable
    /\ p2 = ZeroTriple
    /\ i = 0
    /\ wnaf = <<>>
    /\ acc = None
    /\ ret = <<>>
    /\ lastAdd = <<>>
    /\ acc_g = ZeroTriple
    /\ xyz2 = ZeroTriple
    /\ out = <<>>
    /\ sum = ZeroTriple

\* Line 28.
DualMulG ==
    /\ pc = "dual_start"
    /\ acc_g' \in point_mul_vartime(inputs.g_scalar, inputs.g)
    /\ pc' = "dual_mul_p"
    /\ UNCHANGED <<mulVars, lastAdd, inputs, xyz2, out, sum>>

\* Line 29.
DualMulP ==
    /\ pc = "dual_mul_p"
    /\ xyz2' \in point_mul_vartime(inputs.p_scalar, inputs.p)
    /\ pc' = "dual_add"
    /\ UNCHANGED <<mulVars, lastAdd, inputs, acc_g, out, sum>>

\* Line 30.
DualAdd ==
    /\ pc = "dual_add"
    /\ acc_g' \in PointsAddOutcomes(acc_g, xyz2)
    /\ lastAdd' = <<acc_g, xyz2>>
    /\ pc' = "dual_new_point"
    /\ UNCHANGED <<mulVars, inputs, xyz2, out, sum>>

\* Line 31.
DualNewPoint ==
    /\ pc = "dual_new_point"
    /\ out' = new_point(acc_g[1], acc_g[2], acc_g[3])
    /\ pc' = "dual_done"
    /\ UNCHANGED <<mulVars, lastAdd, inputs, acc_g, xyz2, sum>>

NextDual ==
    \/ DualMulG
    \/ DualMulP
    \/ DualAdd
    \/ DualNewPoint

SpecDual == InitDual /\ [][NextDual]_vars

\* ------------------------------------------------------------------------
\* Additivity: point_mul_vartime for a, for b and for a+b mod order, and
\* points_add_vartime of the first two
\* ------------------------------------------------------------------------
InitSum ==
    /\ pc = "sum_start"
    /\ inputs \in [sa : Scalars, sb : Scalars, pt : EncodedPoints]
    /\ a = 0
    /\ xy = <<ElemZero, ElemZero>>
    /\ precomp = NoTable
    /\ p2 = ZeroTriple
    /\ i = 0
    /\ wnaf = <<>>
    /\ acc = None
    /\ ret = <<>>
    /\ lastAdd = <<>>
    /\ acc_g = ZeroTriple
    /\ xyz2 = ZeroTriple
    /\ out = <<>>
    /\ sum = ZeroTriple

SumMulA ==
    /\ pc = "sum_start"
    /\ acc_g' \in point_mul_vartime(inputs.sa, inputs.pt)
    /\ pc' = "sum_mul_b"
    /\ UNCHANGED <<mulVars, lastAdd, inputs, xyz2, out, sum>>

SumMulB ==
    /\ pc = "sum_mul_b"
    /\ xyz2' \in point_mul_vartime(inputs.sb, inputs.pt)
    /\ pc' = "sum_mul_ab"
    /\ UNCHANGED <<mulVars, lastAdd, inputs, acc_g, out, sum>>

SumMulAB ==
    /\ pc = "sum_mul_ab"
    /\ sum' \in point_mul_vartime((inputs.sa + inputs.sb) % GroupOrder, inputs.pt)
    /\ pc' = "sum_add"
    /\ UNCHANGED <<mulVars, lastAdd, inputs, acc_g, xyz2, out>>

SumAdd ==
    /\ pc = "sum_add"
    /\ acc_g' \in PointsAddOutcomes(acc_g, xyz2)
    /\ lastAdd' = <<acc_g, xyz2>>
    /\ pc' = "sum_done"
    /\ UNCHANGED <<mulVars, inputs, xyz2, out, sum>>

NextSum ==
    \/ SumMulA
    \/ SumMulB
    \/ SumMulAB
    \/ SumAdd

SpecSum == InitSum /\ [][NextSum]_vars

\* ------------------------------------------------------------------------
\* Properties
\* ------------------------------------------------------------------------
\* The input point, as an affine point of the reference group.
P == Decode(xy)

\* The value of the digits at indices >= k, divided by 2^k.
RECURSIVE DigitSum(_, _)
DigitSum(digits, k) ==
    IF k >= Len(digits) THEN 0 ELSE digits[k + 1] + 2 * DigitSum(digits, k + 1)

\* The group element the accumulator stands for.
RepAcc(value) == IF value = None THEN Inf ELSE Rep(value[1])

AllZeroFrom(digits, k) == \A j \in (k + 1)..Len(digits) : digits[j] = 0

TableBuilt == pc \in {"wnaf", "digit", "after_digit", "return", "done"}

Folding == pc \in {"digit", "after_digit", "return", "done"}

\* C1: for every scalar a in [0, order) and every base point P, the triple
\* point_mul_vartime returns stands for a.P, the a-fold sum of P.
C1_MulCorrect == pc = "done" => Rep(ret) = RefMul(a, P)

C1_Witness == pc = "done" /\ a > 1 /\ Rep(ret) = RefMul(a, P) /\ wnaf[1] < 0

\* C2: points_mul_vartime returns g_scalar.G + p_scalar.P, the group-law sum
\* of the two products, for all scalars in [0, order), zero included.
C2_DualCorrect ==
    pc = "dual_done" =>
        Rep(out.xyz) = RefAdd(RefMul(inputs.g_scalar, Decode(inputs.g)),
                              RefMul(inputs.p_scalar, Decode(inputs.p)))

\* C3: a scalar that is 0 modulo the order gives the all-zero triple, and the
\* accumulator ends as infinity only when every digit is zero.
C3_ZeroScalar ==
    pc = "done" =>
        /\ (a % GroupOrder = 0 => ret = ZeroTriple /\ acc = None)
        /\ (acc = None => AllZeroFrom(wnaf, 0) /\ ret = ZeroTriple)

C3_Witness == pc = "done" /\ a = 0 /\ acc = None /\ ret = ZeroTriple

\* C4: points_add_vartime is never called with an operand at infinity, in
\* the table-building loop, in the fold, or in the merge of the two products.
C4_NoInfinityOperand ==
    lastAdd # <<>> => ~IsInfinity(lastAdd[1]) /\ ~IsInfinity(lastAdd[2])

\* C5: (a+b mod order).P from point_mul_vartime stands for the same group
\* element as points_add_vartime of a.P and b.P, for all a, b in [0, order).
C5_Additive == pc = "sum_done" => Rep(sum) = Rep(acc_g)

\* C5 amended: the same for all a, b in [1, order), where neither product
\* handed to points_add_vartime is the point at infinity.
C5_AdditiveNonzero ==
    pc = "sum_done" /\ inputs.sa # 0 /\ inputs.sb # 0 => Rep(sum) = Rep(acc_g)

C5_Witness ==
    /\ pc = "sum_done"
    /\ inputs.sa # 0
    /\ inputs.sb # 0
    /\ (inputs.sa + inputs.sb) % GroupOrder # 0
    /\ Rep(sum) = Rep(acc_g)

\* C6: once the table is built, entry i stands for (2i+1).P, entry 0 is
\* exactly (x, y, 1 in the Montgomery domain), and the entry a nonzero digit
\* d fetches at |d| >> 1 stands for |d|.P.
C6_OddMultiples ==
    TableBuilt =>
        /\ \A k \in 0..(PRECOMP_SIZE - 1) : Rep(precomp[k + 1]) = RefMul(2 * k + 1, P)
        /\ precomp[1] = <<xy[1], xy[2], ToMont(1)>>
        /\ \A j \in 1..Len(wnaf) :
              wnaf[j] # 0 /\ Idx(wnaf[j]) < PRECOMP_SIZE =>
                  Rep(precomp[Idx(wnaf[j]) + 1]) = RefMul(Abs(wnaf[j]), P)

C6_Witness ==
    /\ pc = "digit"
    /\ wnaf[i + 1] > 1
    /\ Rep(precomp[Idx(wnaf[i + 1]) + 1]) = RefMul(wnaf[i + 1], P)

\* C7: every nonzero digit the fold consumes is odd (also as a negative i8)
\* with magnitude in [1, 15], so the assertion holds and precomp[idx] is in
\* bounds.
C7_DigitsInRange ==
    /\ pc # "panic"
    /\ Folding =>
         \A j \in 1..Len(wnaf) :
            wnaf[j] # 0 =>
                /\ LowBit(wnaf[j]) = 1
                /\ Abs(wnaf[j]) \in 1..15
                /\ Idx(wnaf[j]) \in 0..(PRECOMP_SIZE - 1)

C7_Witness == pc = "after_digit" /\ wnaf[i + 1] < 0 /\ acc # None

\* C8: the accumulator starts at infinity, becomes a value exactly at the
\* most significant nonzero digit, never returns to infinity, and doubling
\* leaves infinity unchanged.
C8_Monotonic ==
    [][/\ pc = "wnaf" => acc' = None
       /\ pc \in {"digit", "after_digit"} /\ acc # None => acc' # None
       /\ pc = "digit" /\ pc' # "panic" =>
             (acc' # None <=> ~AllZeroFrom(wnaf, i))
       /\ pc = "digit" /\ acc = None /\ acc' # None =>
             wnaf[i + 1] # 0 /\ AllZeroFrom(wnaf, i + 1)
       /\ pc = "after_digit" /\ acc = None => acc' = None]_vars

C8_Witness == pc = "digit" /\ acc # None /\ wnaf[i + 1] # 0 /\ i < order_bits

\* C9: after the digit at index i is consumed the accumulator stands for
\* (sum over j >= i of digit_j 2^(j-i)).P and is infinity exactly when those
\* digits are all zero; it is doubled once between two indices and not after
\* index 0, so it ends as (sum of digit_j 2^j).P.
C9_FoldInvariant ==
    /\ pc = "after_digit" =>
          /\ RepAcc(acc) = RefMul(DigitSum(wnaf, i), P)
          /\ (acc = None <=> AllZeroFrom(wnaf, i))
    /\ pc = "digit" => RepAcc(acc) = RefMul(2 * DigitSum(wnaf, i + 1), P)
    /\ pc \in {"return", "done"} => RepAcc(acc) = RefMul(DigitSum(wnaf, 0), P)

C9_Witness ==
    /\ pc = "after_digit"
    /\ i = 0
    /\ wnaf[1] # 0
    /\ DigitSum(wnaf, 1) # 0
    /\ RepAcc(acc) = RefMul(DigitSum(wnaf, 0), P)

\* C10: after the table is built no step of the fold changes an entry, a
\* negative digit included; and while later entries are built, p2 and the
\* entries already written stay as they are.
C10_TableFrame ==
    [][/\ TableBuilt => precomp' = precomp /\ p2' = p2
       /\ pc = "precomp" =>
             /\ p2' = p2
             /\ \A k \in 1..i : precomp'[k] = precomp[k]]_vars

C10_Witness ==
    /\ pc = "after_digit"
    /\ wnaf[i + 1] < 0
    /\ Rep(precomp[Idx(wnaf[i + 1]) + 1]) = RefMul(Abs(wnaf[i + 1]), P)

====
